---- MODULE Spec2Model ----
(***************************************************************************)
(* A model of textrenderer/renderer.py (class Renderer): the construction  *)
(* of a Renderer, the gen_img pipeline, and the three numerical routines   *)
(* crop_img, gen_bg_from_image and get_word_color.                         *)
(*                                                                         *)
(* A raster is modelled by its shape (rows, columns); pixel contents enter *)
(* only through the means the code computes from them.  Python floats are  *)
(* modelled bit-exactly as IEEE-754 binary64 values (round to nearest,     *)
(* ties to even) on top of an arbitrary-precision natural number           *)
(* arithmetic, because crop_img takes math.ceil and np.around of float     *)
(* quotients.                                                               *)
(***************************************************************************)
EXTENDS Integers, Sequences, FiniteSets, TLC

(***************************************************************************)
(* Natural numbers of arbitrary size: little-endian sequences of limbs in  *)
(* base 2^15 (limb products stay below 2^31).  <<>> is zero; high zero     *)
(* limbs are allowed and ignored.                                          *)
(***************************************************************************)
LimbBits == 15

LimbBase == 2 ^ LimbBits

Limb(a, i) == IF i <= Len(a) THEN a[i] ELSE 0

RECURSIVE BigNorm(_)
BigNorm(a) ==
    IF a = <<>> THEN <<>>
    ELSE IF a[Len(a)] = 0 THEN BigNorm(SubSeq(a, 1, Len(a) - 1))
    ELSE a

RECURSIVE BigFromNat(_)
BigFromNat(n) ==
    IF n = 0 THEN <<>> ELSE <<n % LimbBase>> \o BigFromNat(n \div LimbBase)

RECURSIVE BigToNat(_)
BigToNat(a) ==
    IF a = <<>> THEN 0 ELSE Head(a) + LimbBase * BigToNat(Tail(a))

RECURSIVE BigAddFrom(_, _, _, _)
BigAddFrom(a, b, i, carry) ==
    IF i > Len(a) /\ i > Len(b)
    THEN (IF carry = 0 THEN <<>> ELSE <<carry>>)
    ELSE LET s == Limb(a, i) + Limb(b, i) + carry
         IN  <<s % LimbBase>> \o BigAddFrom(a, b, i + 1, s \div LimbBase)

BigAdd(a, b) == BigAddFrom(a, b, 1, 0)

\* a - b for a >= b
RECURSIVE BigSubFrom(_, _, _, _)
BigSubFrom(a, b, i, borrow) ==
    IF i > Len(a) THEN <<>>
    ELSE LET d == Limb(a, i) - Limb(b, i) - borrow
         IN  IF d < 0
             THEN <<d + LimbBase>> \o BigSubFrom(a, b, i + 1, 1)
             ELSE <<d>> \o BigSubFrom(a, b, i + 1, 0)

BigSub(a, b) == BigNorm(BigSubFrom(a, b, 1, 0))

\* -1, 0, 1 as a < b, a = b, a > b; both normalised, compared from limb i down
RECURSIVE BigCmpFrom(_, _, _)
BigCmpFrom(a, b, i) ==
    IF i = 0 THEN 0
    ELSE IF a[i] < b[i] THEN -1
    ELSE IF a[i] > b[i] THEN 1
    ELSE BigCmpFrom(a, b, i - 1)

BigCmp(x, y) ==
    LET a == BigNorm(x)
        b == BigNorm(y)
    IN  IF Len(a) < Len(b) THEN -1
        ELSE IF Len(a) > Len(b) THEN 1
        ELSE BigCmpFrom(a, b, Len(a))

\* a * k for 0 <= k < LimbBase
RECURSIVE BigMulSmallFrom(_, _, _, _)
BigMulSmallFrom(a, k, i, carry) ==
    IF i > Len(a)
    THEN (IF carry = 0 THEN <<>> ELSE <<carry>>)
    ELSE LET p == a[i] * k + carry
         IN  <<p % LimbBase>> \o BigMulSmallFrom(a, k, i + 1, p \div LimbBase)

BigMulSmall(a, k) == BigMulSmallFrom(a, k, 1, 0)

RECURSIVE BigMul(_, _)
BigMul(a, b) ==
    IF b = <<>> THEN <<>>
    ELSE BigAdd(BigMulSmall(a, Head(b)), <<0>> \o BigMul(a, Tail(b)))

RECURSIVE ZeroLimbs(_)
ZeroLimbs(n) == IF n = 0 THEN <<>> ELSE <<0>> \o ZeroLimbs(n - 1)

\* a * 2^n
BigShl(a, n) ==
    ZeroLimbs(n \div LimbBits) \o BigMulSmall(a, 2 ^ (n % LimbBits))

\* floor(a / 2^n)
BigShr(a, n) ==
    LET q == n \div LimbBits
        r == n % LimbBits
        lo == 2 ^ r
        hi == 2 ^ (LimbBits - r)
    IN  IF q >= Len(a) THEN <<>>
        ELSE BigNorm([i \in 1..(Len(a) - q) |->
                 (a[i + q] \div lo) + (Limb(a, i + q + 1) % lo) * hi])

RECURSIVE NatBitLen(_)
NatBitLen(n) == IF n = 0 THEN 0 ELSE 1 + NatBitLen(n \div 2)

BigBitLen(x) ==
    LET a == BigNorm(x)
    IN  IF a = <<>> THEN 0
        ELSE LimbBits * (Len(a) - 1) + NatBitLen(a[Len(a)])

BigIsOdd(a) == a # <<>> /\ a[1] % 2 = 1

\* One limb of a binary long division: from a remainder r < d, the next
\* LimbBits quotient bits q of r * 2^LimbBits / d and the remainder left.
RECURSIVE BigDivLimb(_, _, _, _)
BigDivLimb(r, d, q, k) ==
    IF k = 0 THEN [rem |-> BigNorm(r), q |-> q]
    ELSE LET r2 == BigMulSmall(r, 2)
         IN  IF BigCmp(r2, d) >= 0
             THEN BigDivLimb(BigSub(r2, d), d, 2 * q + 1, k - 1)
             ELSE BigDivLimb(r2, d, 2 * q, k - 1)

DivLimbs == 4

\* floor(n * 2^(DivLimbs * LimbBits) / d) for n < 2 * d, and whether the
\* division left a remainder
BigDivShifted(n, d) ==
    LET q0 == IF BigCmp(n, d) >= 0 THEN 1 ELSE 0
        r0 == IF q0 = 1 THEN BigSub(n, d) ELSE BigNorm(n)
        c1 == BigDivLimb(r0, d, 0, LimbBits)
        c2 == BigDivLimb(c1.rem, d, 0, LimbBits)
        c3 == BigDivLimb(c2.rem, d, 0, LimbBits)
        c4 == BigDivLimb(c3.rem, d, 0, LimbBits)
    IN  [quot |-> <<c4.q, c3.q, c2.q, c1.q, q0>>, inexact |-> c4.rem # <<>>]

(***************************************************************************)
(* IEEE-754 binary64.  A float is [sgn, m, e] with value sgn * m * 2^e,    *)
(* sgn in {-1, 0, 1} and, unless sgn = 0, a significand m of exactly       *)
(* MantBits bits.  The magnitudes the renderer computes are far from the   *)
(* overflow and subnormal ranges, which are not modelled.                  *)
(***************************************************************************)
MantBits == 53

FZero == [sgn |-> 0, m |-> <<>>, e |-> 0]

\* n * 2^e (n > 0) rounded to MantBits bits, ties to even; sticky says that
\* the exact value lies strictly above n * 2^e
RoundToMant(sgn, n, e, sticky) ==
    LET len == BigBitLen(n)
    IN  IF len <= MantBits
        THEN [sgn |-> sgn, m |-> BigNorm(BigShl(n, MantBits - len)),
              e |-> e - (MantBits - len)]
        ELSE LET s == len - MantBits
                 kept == BigShr(n, s)
                 low == BigSub(n, BigShl(kept, s))
                 c == BigCmp(low, BigShl(<<1>>, s - 1))
                 up == c > 0 \/ (c = 0 /\ (sticky \/ BigIsOdd(kept)))
                 m1 == IF up THEN BigAdd(kept, <<1>>) ELSE kept
             IN  IF BigBitLen(m1) > MantBits
                 THEN [sgn |-> sgn, m |-> BigShr(m1, 1), e |-> e + s + 1]
                 ELSE [sgn |-> sgn, m |-> BigNorm(m1), e |-> e + s]

Abs(i) == IF i < 0 THEN -i ELSE i

Sign(i) == IF i < 0 THEN -1 ELSE IF i = 0 THEN 0 ELSE 1

\* float(i)
IntToF(i) ==
    IF i = 0 THEN FZero ELSE RoundToMant(Sign(i), BigFromNat(Abs(i)), 0, FALSE)

\* x / y, y # 0
FDiv(x, y) ==
    IF x.sgn = 0 THEN FZero
    ELSE LET d == BigDivShifted(x.m, y.m)
         IN  RoundToMant(x.sgn * y.sgn, d.quot,
                         x.e - y.e - DivLimbs * LimbBits, d.inexact)

\* x * y
FMul(x, y) ==
    IF x.sgn = 0 \/ y.sgn = 0 THEN FZero
    ELSE RoundToMant(x.sgn * y.sgn, BigMul(x.m, y.m), x.e + y.e, FALSE)

\* x < y
FLess(x, y) ==
    IF x.sgn # y.sgn THEN x.sgn < y.sgn
    ELSE IF x.sgn = 0 THEN FALSE
    ELSE LET c == IF x.e # y.e THEN (IF x.e < y.e THEN -1 ELSE 1)
                  ELSE BigCmp(x.m, y.m)
         IN  IF x.sgn = 1 THEN c < 0 ELSE c > 0

\* Python's max(x, y): y only when it is strictly greater
FMax(x, y) == IF FLess(x, y) THEN y ELSE x

\* the integer part of |x| and how the discarded fraction compares with 1/2
\* (frac: 0 none, 1 below half, 2 half, 3 above half)
FSplit(x) ==
    IF x.sgn = 0 THEN [ip |-> 0, frac |-> 0]
    ELSE IF x.e >= 0 THEN [ip |-> BigToNat(BigShl(x.m, x.e)), frac |-> 0]
    ELSE LET s == -x.e
             kept == BigShr(x.m, s)
             low == BigSub(x.m, BigShl(kept, s))
             c == BigCmp(low, BigShl(<<1>>, s - 1))
         IN  [ip |-> BigToNat(kept),
              frac |-> IF BigNorm(low) = <<>> THEN 0 ELSE c + 2]

\* math.ceil(x)
Ceil(x) ==
    LET p == FSplit(x)
    IN  IF x.sgn >= 0 THEN p.ip + (IF p.frac > 0 THEN 1 ELSE 0) ELSE -p.ip

\* int(x): truncation toward zero
Trunc(x) == x.sgn * FSplit(x).ip

\* np.around(x) and cvRound(x): round half to even
Around(x) ==
    LET p == FSplit(x)
        up == p.frac = 3 \/ (p.frac = 2 /\ p.ip % 2 = 1)
    IN  x.sgn * (p.ip + (IF up THEN 1 ELSE 0))

(***************************************************************************)
(* Rasters, slices and the library calls crop_img makes.                   *)
(***************************************************************************)
None == "None"

Min(a, b) == IF a < b THEN a ELSE b

Max(a, b) == IF a > b THEN a ELSE b

SetMin(S) == CHOOSE m \in S : \A x \in S : m <= x

SetMax(S) == CHOOSE m \in S : \A x \in S : x <= m

\* a[start:stop] on an axis of length n: the index range Python selects
\* (a negative index counts from the end; both ends are clamped to 0..n)
SliceIndex(i, n) == IF i < 0 THEN Max(i + n, 0) ELSE Min(i, n)

SliceLen(start, stop, n) ==
    Max(SliceIndex(stop, n) - SliceIndex(start, n), 0)

\* img[y0:y1, x0:x1] for a raster of shape img = [h, w]
SliceShape(img, y0, y1, x0, x1) ==
    [h |-> SliceLen(y0, y1, img.h), w |-> SliceLen(x0, x1, img.w)]

\* cv2.boundingRect of integer points <<x, y>>: (x, y, width, height) of
\* the smallest upright rectangle of pixels that holds them all
BoundingRect(pnts) ==
    LET xs == {pnts[i][1] : i \in DOMAIN pnts}
        ys == {pnts[i][2] : i \in DOMAIN pnts}
    IN  <<SetMin(xs), SetMin(ys),
          SetMax(xs) - SetMin(xs) + 1, SetMax(ys) - SetMin(ys) + 1>>

\* cv2.resize(src, (width, height)): raises on an empty source, otherwise
\* returns a raster of exactly the size asked for
ResizeTo(src, width, height) ==
    IF src.h = 0 \/ src.w = 0 THEN [raised |-> "cv2.error"]
    ELSE [raised |-> "none", h |-> height, w |-> width]

(***************************************************************************)
(* Renderer.random_xy_offset: the left-top offsets random.randint can      *)
(* return for putting a src rectangle in a dst rectangle.                  *)
(***************************************************************************)
MaxOffset(src, dst) == IF dst > src THEN dst - src ELSE 0

RandomXOffsets(src_width, dst_width) == 0..MaxOffset(src_width, dst_width)

RandomYOffsets(src_height, dst_height) == 0..MaxOffset(src_height, dst_height)

(***************************************************************************)
(* Renderer.crop_img.                                                      *)
(***************************************************************************)
\* a draw from half the output height upwards
DstHeightsFromHalf(out_height) == (out_height \div 2)..out_height

\* random.randint(self.out_height // 4 * 3, self.out_height)
DstHeights(out_height) == ((out_height \div 4) * 3)..out_height

\* max(bbox_height / dst_height, bbox_width / self.out_width)
CropScale(bbox, dst_height, out_width) ==
    FMax(FDiv(IntToF(bbox[4]), IntToF(dst_height)),
         FDiv(IntToF(bbox[3]), IntToF(out_width)))

\* math.ceil(length / scale)
ScaledLen(length, scale) == Ceil(FDiv(IntToF(length), scale))

\* the crop window moved towards the text instead of away from it
DstCoordPlusOffset(coord, offset, scale) ==
    Around(FMul(IntToF(Around(FDiv(IntToF(coord), scale)) + offset), scale))

\* int_around((np.around(coord / scale) - offset) * scale)
DstCoord(coord, offset, scale) ==
    Around(FMul(IntToF(Around(FDiv(IntToF(coord), scale)) - offset), scale))

\* int_around(out_len * scale)
DstLen(out_len, scale) == Around(FMul(IntToF(out_len), scale))

\* the crop and resize at the end of crop_img, for a crop box dst_bbox
CropResize(img, dst_bbox, out_width, out_height) ==
    ResizeTo(SliceShape(img, dst_bbox[2], dst_bbox[2] + dst_bbox[4],
                             dst_bbox[1], dst_bbox[1] + dst_bbox[3]),
             out_width, out_height)

\* crop_img from the computation of scale on: the values it computes, and
\* the raster dst it returns or the exception cv2.resize raises, for every
\* draw of the offsets
CropImgAt(img, bbox, out_width, out_height, dst_height, scale) ==
    LET s_bbox_width == ScaledLen(bbox[3], scale)
        s_bbox_height == ScaledLen(bbox[4], scale)
    IN  {LET dst_bbox == <<x[2], y[2], dst_w, dst_h>>
             dst == CropResize(img, dst_bbox, out_width, out_height)
         IN  [raised |-> dst.raised, bbox |-> bbox,
              dst_height |-> dst_height,
              s_bbox_width |-> sw, s_bbox_height |-> sh,
              x_offset |-> x[1], y_offset |-> y[1],
              dst_bbox |-> dst_bbox,
              dst |-> IF dst.raised = "none"
                      THEN [h |-> dst.h, w |-> dst.w] ELSE None]
         : sw \in {s_bbox_width}, sh \in {s_bbox_height},
           dst_w \in {DstLen(out_width, scale)},
           dst_h \in {DstLen(out_height, scale)},
           x \in {<<x_offset, DstCoord(bbox[1], x_offset, scale)>> :
                    x_offset \in RandomXOffsets(s_bbox_width, out_width)},
           y \in {<<y_offset, DstCoord(bbox[2], y_offset, scale)>> :
                    y_offset \in RandomYOffsets(s_bbox_height, out_height)}}

\* every outcome of crop_img(img, text_box_pnts_transformed) for one draw of
\* dst_height; bbox_height / dst_height raises when dst_height is 0
CropImgWith(img, pnts, out_width, out_height, dst_height) ==
    IF dst_height = 0
    THEN {[raised |-> "ZeroDivisionError", bbox |-> BoundingRect(pnts),
           dst_height |-> dst_height]}
    ELSE UNION {CropImgAt(img, bbox, out_width, out_height, dst_height, scale) :
                  bbox \in {BoundingRect(pnts)},
                  scale \in {CropScale(BoundingRect(pnts), dst_height, out_width)}}

CropImg(img, pnts, out_width, out_height) ==
    UNION {CropImgWith(img, pnts, out_width, out_height, dst_height) :
             dst_height \in DstHeights(out_height)}

(***************************************************************************)
(* Renderer.gen_bg_from_image.  A stock image is [h, w, level]: its shape  *)
(* and the intensity of its pixels (an evenly lit image, so that the mean  *)
(* of every window, blurred or not, is level).                             *)
(***************************************************************************)
\* cv2.resize(bg, None, fx=scale, fy=scale): each side is cvRound(side * scale)
ResizeBy(shape, scale) ==
    LET r == [h |-> Around(FMul(IntToF(shape.h), scale)),
              w |-> Around(FMul(IntToF(shape.w), scale))]
    IN  IF r.h <= 0 \/ r.w <= 0 THEN [raised |-> "cv2.error"]
        ELSE [raised |-> "none", h |-> r.h, w |-> r.w]

\* max(width / bg.shape[1], height / bg.shape[0])
BgScale(stock, width, height) ==
    FMax(FDiv(IntToF(width), IntToF(stock.w)),
         FDiv(IntToF(height), IntToF(stock.h)))

\* the contrast and brightness shift of a window of mean bg_mean: 255 / bg_mean
\* raises for a mean of 0, np.random.randint(low, high) raises for low >= high
Normalize(out, bg_mean) ==
    IF bg_mean = 0 THEN "ZeroDivisionError"
    ELSE IF bg_mean \div 2 >= bg_mean THEN "ValueError"
    ELSE "none"

\* gen_bg_from_image once bg is chosen and resized to the shape resized
BgWindow(stock, resized, width, height, x_offset, y_offset) ==
    LET out == SliceShape(resized, y_offset, y_offset + height,
                                   x_offset, x_offset + width)
    IN  [raised |-> Normalize(out, stock.level), out |-> out, bg |-> stock,
         resized |-> resized, x_offset |-> x_offset, y_offset |-> y_offset]

BgWindows(stock, resized, width, height) ==
    {BgWindow(stock, resized, width, height, x_offset, y_offset) :
        x_offset \in RandomXOffsets(width, resized.w),
        y_offset \in RandomYOffsets(height, resized.h)}

\* gen_bg_from_image once bg is chosen
BgFromStock(stock, width, height) ==
    UNION {IF resized.raised # "none" THEN {[raised |-> resized.raised]}
           ELSE BgWindows(stock, resized, width, height) :
             resized \in {ResizeBy(stock, BgScale(stock, width, height))}}

GenBgFromImage(bgs, width, height) ==
    IF ~(width > height) THEN {[raised |-> "AssertionError"]}
    ELSE IF bgs = {} THEN {[raised |-> "IndexError"]}
    ELSE UNION {BgFromStock(stock, width, height) : stock \in bgs}

(***************************************************************************)
(* Renderer.get_word_color.  The region read is given by its shape and by  *)
(* the sum of its pixels.                                                  *)
(***************************************************************************)
RoiMargin == 10

\* bg[ymin:ymax, xmin:xmax]
WordRoi(bg, text_x, text_y, word_height, word_width) ==
    SliceShape(bg, text_y - RoiMargin, text_y + word_height + RoiMargin,
                   text_x - RoiMargin, text_x + word_width + RoiMargin)

\* the limit rounded up instead of truncated
InkLimitRoundedUp(pixel_sum, pixels) ==
    Ceil(FMul(FDiv(IntToF(pixel_sum), IntToF(pixels)),
              FDiv(IntToF(2), IntToF(3))))

\* int(np.mean(word_roi_bg) * (2 / 3))
InkLimit(pixel_sum, pixels) ==
    Trunc(FMul(FDiv(IntToF(pixel_sum), IntToF(pixels)),
               FDiv(IntToF(2), IntToF(3))))

\* the mean of an empty region is nan, and int(nan) raises
GetWordColor(roi, pixel_sum) ==
    IF roi.h * roi.w = 0 THEN {[raised |-> "ValueError"]}
    ELSE UNION {{[raised |-> "none", word_color |-> c, bg_mean |-> m] :
                   c \in 0..m} :
                  m \in {InkLimit(pixel_sum, roi.h * roi.w)}}

(***************************************************************************)
(* State.  pc is the position in gen_img (or in a direct call of one of    *)
(* its routines); self holds the Renderer's fields; the other variables    *)
(* are gen_img's locals.  None is Python's None, also the value of a       *)
(* local that is not bound or no longer read.                              *)
(***************************************************************************)
VARIABLES
    pc,              \* control position
    self,            \* the Renderer object's fields
    attempt_number,  \* attempts of pick_font made by @retry in this call
    word,            \* the text picked
    font,            \* the font picked: [path, size]
    word_size,       \* (width, height) of the word, offset removed
    bg,              \* shape of the background raster
    word_img,        \* shape of the raster being transformed
    text_box_pnts,   \* the text quadrilateral, four <<x, y>> points
    text_box_pnts_transformed,  \* the same after the perspective transform
    word_color,      \* the ink value
    crop,            \* what crop_img computed and returned
    blured,          \* gen_img's flag of the same name
    effects,         \* the post-effects applied so far, in order
    raised,          \* the exception that left the call, or "none"
    args,            \* arguments of a direct call of one routine
    ret              \* what that call returned

vars == <<pc, self, attempt_number, word, font, word_size, bg, word_img,
          text_box_pnts, text_box_pnts_transformed, word_color, crop, blured,
          effects, raised, args, ret>>

locals == <<attempt_number, word, font, word_size, bg, word_img,
            text_box_pnts, text_box_pnts_transformed, word_color, crop,
            blured, effects>>

NoLocals ==
    /\ attempt_number = 0
    /\ word = None
    /\ font = None
    /\ word_size = None
    /\ bg = None
    /\ word_img = None
    /\ text_box_pnts = None
    /\ text_box_pnts_transformed = None
    /\ word_color = None
    /\ crop = None
    /\ blured = FALSE
    /\ effects = <<>>

(***************************************************************************)
(* crop_img called on its own: every output size, raster and text          *)
(* quadrilateral of the bounded sets below, then every random draw.        *)
(***************************************************************************)
MaxOutHeight == 8

OutWidths == {7, 16}

OutHeights == 1..MaxOutHeight

WarpedShapes == {[h |-> 40, w |-> 48]}

BoxOrigins == {<<-2, 0>>, <<5, 3>>, <<20, 9>>}

BoxWidths == {3, 17}

BoxHeights == {2, 17}

\* the corners left-top, right-top, right-bottom, left-bottom of the pixel
\* rectangle (x, y, width, height)
RectPnts(x, y, width, height) ==
    <<<<x, y>>, <<x + width - 1, y>>,
      <<x + width - 1, y + height - 1>>, <<x, y + height - 1>>>>

WarpedQuads ==
    {RectPnts(o[1], o[2], bw, bh) :
        o \in BoxOrigins, bw \in BoxWidths, bh \in BoxHeights}

InitCrop ==
    /\ pc = "call"
    /\ self \in {[out_width |-> ow, out_height |-> oh] :
                    ow \in OutWidths, oh \in OutHeights}
    /\ args \in {[img |-> img, text_box_pnts_transformed |-> q] :
                    img \in WarpedShapes, q \in WarpedQuads}
    /\ ret = None
    /\ raised = "none"
    /\ NoLocals

CallCropImg ==
    /\ pc = "call"
    /\ \E r \in CropImg(args.img, args.text_box_pnts_transformed,
                        self.out_width, self.out_height) :
          /\ ret' = r
          /\ raised' = r.raised
    /\ pc' = "returned"
    /\ UNCHANGED <<self, args, locals>>

NextCrop == CallCropImg

SpecCrop == InitCrop /\ [][NextCrop]_vars

(***************************************************************************)
(* gen_bg_from_image called on its own, for every requested size up to the *)
(* bounds and every pool below.                                            *)
(***************************************************************************)
MaxBgWidth == 8

MaxBgHeight == 5

StockImages ==
    {[h |-> 3, w |-> 5, level |-> 128], [h |-> 9, w |-> 4, level |-> 1],
     [h |-> 2, w |-> 2, level |-> 0]}

BgPools == {StockImages, {}}

InitBg ==
    /\ pc = "call"
    /\ self \in {[bgs |-> pool] : pool \in BgPools}
    /\ args \in {[width |-> width, height |-> height] :
                    width \in 1..MaxBgWidth, height \in 1..MaxBgHeight}
    /\ ret = None
    /\ raised = "none"
    /\ NoLocals

CallGenBgFromImage ==
    /\ pc = "call"
    /\ \E r \in GenBgFromImage(self.bgs, args.width, args.height) :
          /\ ret' = r
          /\ raised' = r.raised
    /\ pc' = "returned"
    /\ UNCHANGED <<self, args, locals>>

NextBg == CallGenBgFromImage

SpecBg == InitBg /\ [][NextBg]_vars

(***************************************************************************)
(* get_word_color called as draw_text_on_bg calls it: the word centred on  *)
(* a background eight times its size.  The region read holds pixels of     *)
(* value level, but for some that are brighter by one.                     *)
(***************************************************************************)
MaxBrighter == 2

Levels == {0, 1, 2, 100, 254}

WordSizes == {<<3, 2>>, <<6, 4>>, <<12, 5>>}

\* int(n / 2)
IntHalf(n) == IF n >= 0 THEN n \div 2 ELSE -((-n) \div 2)

\* the background gen_img asks for, and the centred text position
BgShapeFor(size) == [h |-> size[2] * 8, w |-> size[1] * 8]

CentredX(bg_shape, word_width) == IntHalf(bg_shape.w - word_width)

CentredY(bg_shape, word_height) == IntHalf(bg_shape.h - word_height)

ColorArgs(size, level, brighter) ==
    LET shape == BgShapeFor(size)
        text_x == CentredX(shape, size[1])
        text_y == CentredY(shape, size[2])
        roi == WordRoi(shape, text_x, text_y, size[2], size[1])
    IN  [bg |-> shape, text_x |-> text_x, text_y |-> text_y,
         word_height |-> size[2], word_width |-> size[1],
         pixels |-> roi.h * roi.w,
         pixel_sum |-> roi.h * roi.w * level + brighter]

InitColor ==
    /\ pc = "call"
    /\ self = None
    /\ args \in {ColorArgs(size, level, brighter) :
                    size \in WordSizes, level \in Levels,
                    brighter \in 0..MaxBrighter}
    /\ ret = None
    /\ raised = "none"
    /\ NoLocals

CallGetWordColor ==
    /\ pc = "call"
    /\ \E r \in GetWordColor(WordRoi(args.bg, args.text_x, args.text_y,
                                     args.word_height, args.word_width),
                             args.pixel_sum) :
          /\ ret' = r
          /\ raised' = r.raised
    /\ pc' = "returned"
    /\ UNCHANGED <<self, args, locals>>

NextColor == CallGetWordColor

SpecColor == InitColor /\ [][NextColor]_vars

(***************************************************************************)
(* The Renderer and gen_img.  The corpus, the fonts' glyph metrics and     *)
(* coverage, the liner and the perspective transform are collaborators     *)
(* outside renderer.py; they are given by the small tables below.          *)
(***************************************************************************)
MaxAttempts == 2

MaxFontSize == 4

MaxCharSpace == 1

MaxLineMargin == 1

FontPaths == {"f1", "f2"}

FontPools == {FontPaths, {}}

\* words are sequences of one-character strings
Corpus == {<<"a">>, <<"a", "b">>, <<"b", " ", "a", "a">>}

FontSizes == 4..MaxFontSize

OutSizes == {<<16, 4>>}

PipelineLevels == {1, 3}

Warps == {[shift |-> 0, shear |-> 0], [shift |-> 2, shear |-> 1]}

\* libs.font_utils.get_fonts_chars: the characters each font can render
GetFontsChars(fonts) ==
    [f \in fonts |-> IF f = "f1" THEN {"a", "b"} ELSE {"a"}]

\* font.getoffset(text) and font.getsize(text) of a fixed-pitch font
GetOffset(f, text) == IF f.path = "f1" THEN <<0, 1>> ELSE <<1, 0>>

GetSize(f, text) ==
    <<Len(text) * (f.size - 1) + GetOffset(f, text)[1],
      f.size + GetOffset(f, text)[2]>>

\* Renderer.get_word_size
GetWordSize(f, text) ==
    <<GetSize(f, text)[1] - GetOffset(f, text)[1],
      GetSize(f, text)[2] - GetOffset(f, text)[2]>>

CtorArgs ==
    {[fonts |-> fonts, bgs |-> bgs, width |-> size[1], height |-> size[2],
      clip_max_chars |-> clip, debug |-> debug, strict |-> strict] :
        fonts \in FontPools, bgs \in BgPools, size \in OutSizes,
        clip \in BOOLEAN, debug \in BOOLEAN, strict \in BOOLEAN}

\* Renderer.__init__
NewRenderer(a) ==
    [fonts |-> a.fonts, bgs |-> a.bgs,
     out_width |-> a.width, out_height |-> a.height,
     clip_max_chars |-> a.clip_max_chars,
     max_chars |-> (a.width \div 4) - 1,
     debug |-> a.debug, strict |-> a.strict,
     font_chars |-> IF a.strict THEN GetFontsChars(a.fonts) ELSE None]

Construct ==
    /\ pc = "start"
    /\ \E a \in CtorArgs : self' = NewRenderer(a)
    /\ pc' = "ready"
    /\ UNCHANGED <<locals, raised, args, ret>>

\* the locals of a gen_img frame that has not started or has ended
ResetLocals ==
    /\ attempt_number' = 0
    /\ blured' = FALSE
    /\ effects' = <<>>
    /\ word' = None
    /\ font' = None
    /\ word_size' = None
    /\ bg' = None
    /\ word_img' = None
    /\ text_box_pnts' = None
    /\ text_box_pnts_transformed' = None
    /\ word_color' = None
    /\ crop' = None

\* a call of gen_img
GenImg ==
    /\ pc \in {"ready", "done", "raised"}
    /\ pc' = "pick_font"
    /\ raised' = "none"
    /\ ResetLocals
    /\ UNCHANGED <<self, args, ret>>

\* an exception leaves gen_img
Raise(exc) ==
    /\ pc' = "raised"
    /\ raised' = exc
    /\ ResetLocals

\* a check that looks at the first character only
UnsupportedFirstOnly(text, supported_chars) ==
    Len(text) > 0 /\ text[1] # " " /\ text[1] \notin supported_chars

\* the strict check of pick_font: some character other than a space is not
\* among the font's supported characters
Unsupported(text, supported_chars) ==
    \E i \in DOMAIN text : text[i] # " " /\ text[i] \notin supported_chars

\* word[:self.max_chars] when clipping is on
ClipWord(sample) ==
    IF self.clip_max_chars /\ Len(sample) > self.max_chars
    THEN SubSeq(sample, 1, self.max_chars)
    ELSE sample

\* the body of pick_font, for one sample, font and size drawn; random.choice
\* raises on an empty pool
PickFontBody(sample, font_path, font_size) ==
    IF self.fonts = {} THEN [raised |-> "IndexError"]
    ELSE IF self.strict
            /\ Unsupported(ClipWord(sample), self.font_chars[font_path])
    THEN [raised |-> "Exception"]
    ELSE [raised |-> "none", word |-> ClipWord(sample),
          font |-> [path |-> font_path, size |-> font_size],
          word_size |-> GetWordSize([path |-> font_path, size |-> font_size],
                                    ClipWord(sample))]

\* @retry without arguments: every exception starts another attempt
Retries(exc) == TRUE

\* one attempt of pick_font under @retry
PickFont ==
    /\ pc = "pick_font"
    /\ \E sample \in Corpus, font_size \in FontSizes,
          font_path \in (IF self.fonts = {} THEN {None} ELSE self.fonts) :
          LET r == PickFontBody(sample, font_path, font_size)
          IN  /\ attempt_number' = Min(attempt_number + 1, MaxAttempts)
              /\ IF r.raised = "none"
                 THEN /\ word' = r.word
                      /\ font' = r.font
                      /\ word_size' = r.word_size
                      /\ pc' = "gen_bg"
                      /\ raised' = raised
                 ELSE /\ UNCHANGED <<word, font, word_size>>
                      /\ pc' = IF Retries(r.raised) THEN pc ELSE "raised"
                      /\ raised' = IF Retries(r.raised) THEN raised
                                   ELSE r.raised
    /\ UNCHANGED <<self, bg, word_img, text_box_pnts,
                   text_box_pnts_transformed, word_color, crop, blured,
                   effects, args, ret>>

\* Renderer.gen_rand_bg
GenRandBg(width, height) ==
    {[raised |-> "none", out |-> [h |-> height, w |-> width]]}

\* Renderer.gen_bg, called with eight times the word size
GenBg ==
    /\ pc = "gen_bg"
    /\ \E r \in GenBgFromImage(self.bgs, word_size[1] * 8, word_size[2] * 8)
                  \cup GenRandBg(word_size[1] * 8, word_size[2] * 8) :
          IF r.raised = "none"
          THEN /\ bg' = r.out
               /\ pc' = "draw_text"
               /\ attempt_number' = 0
               /\ word_size' = None
               /\ UNCHANGED <<word, font, word_img, text_box_pnts,
                              text_box_pnts_transformed, word_color, crop,
                              blured, effects, raised>>
          ELSE Raise(r.raised)
    /\ UNCHANGED <<self, args, ret>>

\* the corners draw_text_on_bg returns for a text box
TextBoxPnts(text_x, text_y, word_width, word_height) ==
    <<<<text_x, text_y>>, <<text_x + word_width, text_y>>,
      <<text_x + word_width, text_y + word_height>>,
      <<text_x, text_y + word_height>>>>

\* draw_text_with_random_space: every character measured alone, a gap of
\* char_space_width between two characters, the whole centred again
RandomSpaceBox(f, text, bg_shape, char_space_width) ==
    LET width == Len(text) * GetSize(f, <<"a">>)[1]
                   + char_space_width * (Len(text) - 1)
        height == GetSize(f, <<"a">>)[2]
    IN  TextBoxPnts(CentredX(bg_shape, width), CentredY(bg_shape, height),
                    width, height)

\* the text boxes draw_text_on_bg can return: with random spaces, or the
\* centred word as it is (drawn directly or cloned seamlessly)
TextBoxes(f, text, bg_shape) ==
    {RandomSpaceBox(f, text, bg_shape, space) : space \in 0..MaxCharSpace}
    \cup {TextBoxPnts(CentredX(bg_shape, GetWordSize(f, text)[1]),
                      CentredY(bg_shape, GetWordSize(f, text)[2]),
                      GetWordSize(f, text)[1], GetWordSize(f, text)[2])}

\* the outcomes of get_word_color as draw_text_on_bg calls it, the region's
\* pixels being of one of the levels above
WordColors(f, text, bg_shape) ==
    LET size == GetWordSize(f, text)
        roi == WordRoi(bg_shape, CentredX(bg_shape, size[1]),
                       CentredY(bg_shape, size[2]), size[2], size[1])
    IN  UNION {GetWordColor(roi, roi.h * roi.w * level) :
                 level \in PipelineLevels}

DrawTextOnBg ==
    /\ pc = "draw_text"
    /\ \E c \in WordColors(font, word, bg) :
          IF c.raised = "none"
          THEN /\ \E box \in TextBoxes(font, word, bg) : text_box_pnts' = box
               /\ word_color' = c.word_color
               /\ word_img' = bg
               /\ pc' = "line"
               /\ font' = None
               /\ bg' = None
               /\ UNCHANGED <<attempt_number, word, word_size,
                              text_box_pnts_transformed, crop, blured,
                              effects, raised>>
          ELSE Raise(c.raised)
    /\ UNCHANGED <<self, args, ret>>

\* liner.apply may return a larger text box
GrowPnts(pnts, m) ==
    <<<<pnts[1][1] - m, pnts[1][2] - m>>, <<pnts[2][1] + m, pnts[2][2] - m>>,
      <<pnts[3][1] + m, pnts[3][2] + m>>, <<pnts[4][1] - m, pnts[4][2] + m>>>>

ApplyLine ==
    /\ pc = "line"
    /\ \E m \in 0..MaxLineMargin : text_box_pnts' = GrowPnts(text_box_pnts, m)
    /\ word_color' = None
    /\ pc' = "perspective"
    /\ UNCHANGED <<self, attempt_number, word, font, word_size, bg, word_img,
                   text_box_pnts_transformed, crop, blured, effects, raised,
                   args, ret>>

\* transform_image and transform_pnts for one projection: the raster grows
\* by the shift on every side, the points move and lean with it
WarpShape(shape, warp) ==
    [h |-> shape.h + 2 * warp.shift, w |-> shape.w + 2 * warp.shift]

WarpPnts(pnts, warp) ==
    <<<<pnts[1][1] + warp.shift + warp.shear, pnts[1][2] + warp.shift>>,
      <<pnts[2][1] + warp.shift + warp.shear, pnts[2][2] + warp.shift>>,
      <<pnts[3][1] + warp.shift, pnts[3][2] + warp.shift>>,
      <<pnts[4][1] + warp.shift, pnts[4][2] + warp.shift>>>>

ApplyPerspectiveTransform ==
    /\ pc = "perspective"
    /\ \E warp \in Warps :
          /\ word_img' = WarpShape(word_img, warp)
          /\ text_box_pnts_transformed' = WarpPnts(text_box_pnts, warp)
    /\ text_box_pnts' = None
    /\ pc' = "crop"
    /\ UNCHANGED <<self, attempt_number, word, font, word_size, bg,
                   word_color, crop, blured, effects, raised, args, ret>>

\* whether img[y:y + height, x:x + width] is the window dst_bbox asks for:
\* a box of positive size inside the raster
ValidWindow(img, dst_bbox) ==
    /\ dst_bbox[3] > 0
    /\ dst_bbox[4] > 0
    /\ 0 <= dst_bbox[1]
    /\ dst_bbox[1] + dst_bbox[3] <= img.w
    /\ 0 <= dst_bbox[2]
    /\ dst_bbox[2] + dst_bbox[4] <= img.h

\* the raster gen_img goes on with after crop_img returned r: in debug mode
\* the warped raster with the boxes drawn on it, otherwise the crop
AfterCrop(r) ==
    IF self.debug THEN word_img
    ELSE [h |-> r.dst.h, w |-> r.dst.w,
          window |-> IF ValidWindow(word_img, r.dst_bbox) THEN "inside"
                     ELSE "outside"]

CropStep ==
    /\ pc = "crop"
    /\ \E r \in CropImg(word_img, text_box_pnts_transformed,
                        self.out_width, self.out_height) :
          IF r.raised = "none"
          THEN /\ crop' = r
               /\ word_img' = AfterCrop(r)
               /\ text_box_pnts_transformed' = None
               /\ pc' = "noise"
               /\ UNCHANGED <<attempt_number, word, font, word_size, bg,
                              text_box_pnts, word_color, blured, effects,
                              raised>>
          ELSE Raise(r.raised)
    /\ UNCHANGED <<self, args, ret>>

ApplyNoise ==
    /\ pc = "noise"
    /\ \/ effects' = effects \o <<"clip", "noise">>
       \/ effects' = effects
    /\ crop' = None
    /\ pc' = "blur"
    /\ UNCHANGED <<self, attempt_number, word, font, word_size, bg, word_img,
                   text_box_pnts, text_box_pnts_transformed, word_color,
                   blured, raised, args, ret>>

\* the blur step without the assignment blured = True
ApplyBlurFlagUnset ==
    /\ pc = "blur"
    /\ \/ /\ blured' = blured
          /\ effects' = Append(effects, "blur")
       \/ UNCHANGED <<blured, effects>>
    /\ pc' = "prydown"
    /\ UNCHANGED <<self, attempt_number, word, font, word_size, bg, word_img,
                   text_box_pnts, text_box_pnts_transformed, word_color,
                   crop, raised, args, ret>>

ApplyBlur ==
    /\ pc = "blur"
    /\ \/ /\ blured' = TRUE
          /\ effects' = Append(effects, "blur")
       \/ UNCHANGED <<blured, effects>>
    /\ pc' = "prydown"
    /\ UNCHANGED <<self, attempt_number, word, font, word_size, bg, word_img,
                   text_box_pnts, text_box_pnts_transformed, word_color,
                   crop, raised, args, ret>>

ApplyPrydown ==
    /\ pc = "prydown"
    /\ \/ /\ ~blured
          /\ effects' = Append(effects, "prydown")
       \/ effects' = effects
    /\ pc' = "clip"
    /\ UNCHANGED <<self, attempt_number, word, font, word_size, bg, word_img,
                   text_box_pnts, text_box_pnts_transformed, word_color,
                   crop, blured, raised, args, ret>>

\* the final clip, the optional reverse_img, and the return of (word_img, word)
ClipReverseReturn ==
    /\ pc = "clip"
    /\ \/ effects' = effects \o <<"clip", "reverse">>
       \/ effects' = Append(effects, "clip")
    /\ pc' = "done"
    /\ UNCHANGED <<self, attempt_number, word, font, word_size, bg, word_img,
                   text_box_pnts, text_box_pnts_transformed, word_color,
                   crop, blured, raised, args, ret>>

Init ==
    /\ pc = "start"
    /\ self = None
    /\ args = None
    /\ ret = None
    /\ raised = "none"
    /\ NoLocals

Next ==
    \/ Construct
    \/ GenImg
    \/ PickFont
    \/ GenBg
    \/ DrawTextOnBg
    \/ ApplyLine
    \/ ApplyPerspectiveTransform
    \/ CropStep
    \/ ApplyNoise
    \/ ApplyBlur
    \/ ApplyPrydown
    \/ ClipReverseReturn

Spec == Init /\ [][Next]_vars

(***************************************************************************)
(* Properties.                                                             *)
(***************************************************************************)
\* C1: for every raster size, text quadrilateral and random draw, crop_img
\* returns a raster of exactly out_width x out_height pixels.
C1_CropReturnsOutputSize ==
    pc = "returned" =>
        /\ ret.raised = "none"
        /\ ret.dst = [h |-> self.out_height, w |-> self.out_width]

\* C2: the effects of a gen_img run follow the order clip, noise, then blur
\* or prydown, then clip, then reverse, each step but the last clip being
\* optional; blured is set exactly when blur ran, and prydown never runs in
\* a run in which blur ran.
Prefixes(s) == {SubSeq(s, 1, n) : n \in 0..Len(s)}

EffectOrders ==
    {n \o b \o <<"clip">> \o r :
        n \in {<<>>, <<"clip", "noise">>},
        b \in {<<>>, <<"blur">>, <<"prydown">>},
        r \in {<<>>, <<"reverse">>}}

Applied(effect) == \E i \in DOMAIN effects : effects[i] = effect

C2_PostEffectsOrder ==
    /\ effects \in UNION {Prefixes(o) : o \in EffectOrders}
    /\ pc = "done" => effects \in EffectOrders
    /\ blured <=> Applied("blur")
    /\ ~(Applied("blur") /\ Applied("prydown"))

C2_BlurRunCompleted ==
    /\ pc = "done"
    /\ effects = <<"clip", "noise", "blur", "clip", "reverse">>

\* C3: with strict validation a pick_font attempt on a word with a non-space
\* character outside the font's coverage is retried and its exception never
\* reaches the caller, so a word and font that pick_font returned have every
\* non-space character of the word in the font's coverage.
C3_StrictPickFontReturnsCoveredWord ==
    (pc # "start" /\ self.strict) =>
        /\ raised # "Exception"
        /\ pc \in {"gen_bg", "draw_text"} =>
              \A i \in DOMAIN word :
                  \/ word[i] = " "
                  \/ word[i] \in GetFontsChars(self.fonts)[font.path]

C3_ReturnedAfterRetry ==
    /\ pc = "gen_bg"
    /\ self.strict
    /\ attempt_number > 1
    /\ font.path = "f2"
    /\ word = <<"a">>

\* C4: gen_bg_from_image(width, height) on a pool of stock images returns a
\* raster of height rows and width columns when width > height, and fails
\* when width <= height.
C4_BgExactSizeOrFailure ==
    (pc = "returned" /\ self.bgs # {}) =>
        IF args.width > args.height
        THEN /\ ret.raised = "none"
             /\ ret.out = [h |-> args.height, w |-> args.width]
        ELSE ret.raised # "none"

\* C5: a Renderer is never constructed with an empty font pool or an empty
\* background pool, so gen_img never draws from an empty pool.
C5_EmptyPoolRefusedAtConstruction ==
    pc # "start" => self.fonts # {} /\ self.bgs # {}

\* C6: outside debug mode gen_img returns only rasters cropped with a box of
\* positive size that lies inside the warped raster.
C6_InvalidCropBoxNeverReturned ==
    (pc = "done" /\ ~self.debug) => word_img.window = "inside"

\* C7 as stated: 0.75 * out_height <= dst_height <= out_height.
C7_DstHeightThreeQuarters ==
    pc = "returned" =>
        /\ 3 * self.out_height <= 4 * ret.dst_height
        /\ ret.dst_height <= self.out_height

\* C7: the dst_height drawn in crop_img satisfies
\* 3 * floor(out_height / 4) <= dst_height <= out_height.
C7_DstHeightRange ==
    pc = "returned" =>
        /\ 3 * (self.out_height \div 4) <= ret.dst_height
        /\ ret.dst_height <= self.out_height

C7_BelowThreeQuarters ==
    /\ pc = "returned"
    /\ self.out_height = 5
    /\ ret.dst_height = 3

Overhangs(r) ==
    {r.dst_bbox[1] - r.bbox[1],
     r.dst_bbox[2] - r.bbox[2],
     (r.bbox[1] + r.bbox[3]) - (r.dst_bbox[1] + r.dst_bbox[3]),
     (r.bbox[2] + r.bbox[4]) - (r.dst_bbox[2] + r.dst_bbox[4])}

\* C9 as stated: the crop box dst_bbox contains the whole text bounding box.
C9_CropBoxContainsText ==
    (pc = "returned" /\ ret.raised = "none") =>
        \A d \in Overhangs(ret) : d <= 0

\* C9: no edge of the text bounding box lies more than scale / 2 + 1 warped
\* pixels outside dst_bbox, scale being the larger of bbox.height / dst_height
\* and bbox.width / out_width.
C9_CropBoxNearlyContainsText ==
    (pc = "returned" /\ ret.raised = "none") =>
        \A d \in Overhangs(ret) :
            \/ (2 * d - 2) * ret.dst_height <= ret.bbox[4]
            \/ (2 * d - 2) * self.out_width <= ret.bbox[3]

C9_TextEdgeOutside ==
    /\ pc = "returned"
    /\ ret.raised = "none"
    /\ ret.x_offset > 0
    /\ \E d \in Overhangs(ret) : d >= 2

\* C10: the scaled text box never exceeds the output box: s_bbox_width <=
\* out_width and s_bbox_height <= dst_height <= out_height.
C10_ScaledBoxFits ==
    (pc = "returned" /\ ret.dst_height > 0) =>
        /\ ret.s_bbox_width <= self.out_width
        /\ ret.s_bbox_height <= ret.dst_height
        /\ ret.dst_height <= self.out_height
====
